---- MODULE Spec2Model ----
(***************************************************************************)
(* A model of fortnitepy/friend.py: FriendBase and Friend.                 *)
(*                                                                         *)
(* Five state machines share this module, one per group of operations:     *)
(*   SpecAnnot     nickname / note: set_*, remove_*, _update_summary       *)
(*   SpecRace      concurrent set_nickname calls, with the order of        *)
(*                 requests and responses kept as history                  *)
(*   SpecUpdate    FriendBase._update / Friend._update and the derived     *)
(*                 booleans inbound / outgoing                             *)
(*   SpecPresence  the presence cache readers: is_online, platform,        *)
(*                 join_party                                              *)
(*   SpecLogout    fetch_last_logout and _update_last_logout               *)
(*                                                                         *)
(* A coroutine is split at its await: the part up to the outbound request  *)
(* is one step, the part after the response is another, and other steps    *)
(* may run in between.                                                     *)
(***************************************************************************)
EXTENDS Integers, Sequences, FiniteSets, TLC

\* ------------------------------------------------------------ bounds
\* Number of coroutines that may run on the same Friend at once.
NumTasks == 2
\* Cap on the number of outbound requests (the mock transport's counter).
MaxCalls == 2
\* Longest list of last-online records in one response entry.
MaxRecords == 2

\* ------------------------------------------------ program constants
MinNicknameLen == 3
MaxNicknameLen == 16
MinNoteLen == 3
MaxNoteLen == 255

Tasks == 1..NumTasks

\* ------------------------------------------------------------ values
\* Python's None and a present value.
None == <<>>
Some(v) == <<v>>

\* A str of n characters; len() is Len.
Str(n) == [i \in 1..n |-> "x"]
EmptyStr == Str(0)

\* The strings tried as nicknames and notes: at and around each length limit.
NicknameInputs ==
  { Str(n) : n \in {MinNicknameLen - 1, MinNicknameLen, MaxNicknameLen, MaxNicknameLen + 1} }
NoteInputs ==
  { Str(n) : n \in {MinNoteLen - 1, MinNoteLen, MaxNoteLen, MaxNoteLen + 1} }

\* What an operation ended with: a normal return or a raised exception.
Returned == [type |-> "return", detail |-> ""]
Raise(type, detail) == [type |-> type, detail |-> detail]

\* Mutation of ignored: validation_failed is not in the tuple.
ignored_without_validation_failed ==
  { "errors.com.epicgames.common.unsupported_media_type" }

\* The reason codes set_nickname and set_note turn into ValueError.
ignored ==
  { "errors.com.epicgames.common.unsupported_media_type",
    "errors.com.epicgames.validation.validation_failed" }

\* Reason codes a failing request may carry: the two above and another one.
MessageCodes ==
  { "errors.com.epicgames.common.unsupported_media_type",
    "errors.com.epicgames.validation.validation_failed",
    "errors.com.epicgames.friends.friendship_not_found" }

\* What the outbound request may end with: success, an HTTPException with a
\* reason code, or an error that is no HTTPException.
HTTPExceptions == { Raise("HTTPException", c) : c \in MessageCodes }
OtherErrors == { Raise("TimeoutError", "") }
Responses == {Returned} \cup HTTPExceptions \cup OtherErrors

VARIABLES
  nickname,   \* Friend._nickname: None or Some(str)
  note,       \* Friend._note: None or Some(str)
  inflight,   \* per task: the call suspended at its await, or NoCall
  last,       \* the operation that ended last, its argument and outcome
  requests,   \* number of outbound requests made so far
  ticket,     \* history: per task, the serial number of its pending request
  resolved,   \* history: the set_nickname responses, in the order they resolved
  status,     \* FriendBase._status
  direction,  \* FriendBase._direction
  created_at, \* FriendBase._created_at
  favorite,   \* Friend._favorite: None or Some(bool)
  upd,        \* the last _update call: payload, fields before it, outcome
  cache,      \* the client's presence cache: id -> None or Some(presence)
  joining,    \* per task: join_party suspended at party.join()
  joins,      \* number of calls of party.join() so far
  ret,        \* the presence operation that ended last and what it gave
  last_logout,  \* Friend._last_logout: None or Some(datetime)
  fetching,     \* per task: fetch_last_logout suspended at its request
  fetches,      \* number of presence_get_last_online requests so far
  fetched       \* the fetch_last_logout that ended last: response, outcome, value

annot_vars == <<nickname, note, inflight, last, requests>>
history_vars == <<ticket, resolved>>
update_vars == <<status, direction, created_at, favorite, upd>>
presence_vars == <<cache, joining, joins, ret>>
logout_vars == <<last_logout, fetching, fetches, fetched>>
vars == <<annot_vars, history_vars, update_vars, presence_vars, logout_vars>>

NoCall == [op |-> "none", arg |-> None]
NoResult ==
  [op |-> "none", arg |-> None, response |-> None, outcome |-> Returned, seq |-> 0]

\* The record of an ended operation: its argument, what its request ended
\* with (None when it made none) and what the caller got. seq alternates so
\* that two equal outcomes in a row are two different states.
Ended(op, arg, response, outcome) ==
  [op |-> op, arg |-> arg, response |-> response, outcome |-> outcome,
   seq |-> 1 - last.seq]

\* ------------------------------------------------------------ Friend
\* __init__: _nickname = None, _note = None.
AnnotInit ==
  /\ nickname = None
  /\ note = None
  /\ inflight = [t \in Tasks |-> NoCall]
  /\ last = NoResult
  /\ requests = 0

\* Mutation of the nickname length check: 17 characters pass.
ValidNicknameLength_to_17(s) ==
  MinNicknameLen <= Len(s) /\ Len(s) <= MaxNicknameLen + 1

\* if not (3 <= len(nickname) <= 16)
ValidNicknameLength(s) == MinNicknameLen <= Len(s) /\ Len(s) <= MaxNicknameLen

\* Mutation of the note length check: 2 characters pass.
ValidNoteLength_from_2(s) ==
  MinNoteLen - 1 <= Len(s) /\ Len(s) <= MaxNoteLen

\* if not (3 <= len(note) <= 255)
ValidNoteLength(s) == MinNoteLen <= Len(s) /\ Len(s) <= MaxNoteLen

\* except HTTPException as e: ValueError for an ignored code, else re-raise.
\* An error that is no HTTPException is not caught.
SetNicknameRaised(e) ==
  IF e.type = "HTTPException" /\ e.detail \in ignored
    THEN Raise("ValueError", "Invalid nickname")
    ELSE e

SetNoteRaised(e) ==
  IF e.type = "HTTPException" /\ e.detail \in ignored
    THEN Raise("ValueError", "Invalid note")
    ELSE e

\* The outbound request: one more call on the transport, and the coroutine
\* waits for the response.
Request(t, op, arg) ==
  /\ requests < MaxCalls
  /\ requests' = requests + 1
  /\ inflight' = [inflight EXCEPT ![t] = [op |-> op, arg |-> arg]]

\* set_nickname up to its await.
set_nickname(t, s) ==
  /\ inflight[t] = NoCall
  /\ IF ~ValidNicknameLength(s)
       THEN /\ last' = Ended("set_nickname", Some(s), None,
                            Raise("ValueError", "Invalid nickname length"))
            /\ UNCHANGED <<nickname, note, inflight, requests>>
       ELSE /\ Request(t, "set_nickname", Some(s))
            /\ UNCHANGED <<nickname, note, last>>

\* Mutation of set_nickname: the assignment runs whether or not the request
\* raised (as in a finally clause).
set_nickname_resume_assigns_on_failure(t, r) ==
  /\ inflight[t].op = "set_nickname"
  /\ inflight' = [inflight EXCEPT ![t] = NoCall]
  /\ nickname' = inflight[t].arg
  /\ last' = Ended("set_nickname", inflight[t].arg, Some(r),
                   IF r = Returned THEN Returned ELSE SetNicknameRaised(r))
  /\ UNCHANGED <<note, requests>>

\* Mutation of set_nickname: the assignment runs only while no nickname is
\* stored, so the first response wins.
set_nickname_resume_first_wins(t, r) ==
  /\ inflight[t].op = "set_nickname"
  /\ inflight' = [inflight EXCEPT ![t] = NoCall]
  /\ IF r = Returned
       THEN /\ nickname' = IF nickname = None THEN inflight[t].arg ELSE nickname
            /\ last' = Ended("set_nickname", inflight[t].arg, Some(r), Returned)
       ELSE /\ nickname' = nickname
            /\ last' = Ended("set_nickname", inflight[t].arg, Some(r), SetNicknameRaised(r))
  /\ UNCHANGED <<note, requests>>

\* set_nickname from the response on.
set_nickname_resume(t, r) ==
  /\ inflight[t].op = "set_nickname"
  /\ inflight' = [inflight EXCEPT ![t] = NoCall]
  /\ IF r = Returned
       THEN /\ nickname' = inflight[t].arg
            /\ last' = Ended("set_nickname", inflight[t].arg, Some(r), Returned)
       ELSE /\ nickname' = nickname
            /\ last' = Ended("set_nickname", inflight[t].arg, Some(r), SetNicknameRaised(r))
  /\ UNCHANGED <<note, requests>>

\* remove_nickname up to its await.
remove_nickname(t) ==
  /\ inflight[t] = NoCall
  /\ Request(t, "remove_nickname", None)
  /\ UNCHANGED <<nickname, note, last>>

\* remove_nickname from the response on: any error propagates.
remove_nickname_resume(t, r) ==
  /\ inflight[t].op = "remove_nickname"
  /\ inflight' = [inflight EXCEPT ![t] = NoCall]
  /\ nickname' = IF r = Returned THEN None ELSE nickname
  /\ last' = Ended("remove_nickname", None, Some(r), r)
  /\ UNCHANGED <<note, requests>>

\* set_note up to its await.
set_note(t, s) ==
  /\ inflight[t] = NoCall
  /\ IF ~ValidNoteLength(s)
       THEN /\ last' = Ended("set_note", Some(s), None,
                            Raise("ValueError", "Invalid note length"))
            /\ UNCHANGED <<nickname, note, inflight, requests>>
       ELSE /\ Request(t, "set_note", Some(s))
            /\ UNCHANGED <<nickname, note, last>>

\* set_note from the response on.
set_note_resume(t, r) ==
  /\ inflight[t].op = "set_note"
  /\ inflight' = [inflight EXCEPT ![t] = NoCall]
  /\ IF r = Returned
       THEN /\ note' = inflight[t].arg
            /\ last' = Ended("set_note", inflight[t].arg, Some(r), Returned)
       ELSE /\ note' = note
            /\ last' = Ended("set_note", inflight[t].arg, Some(r), SetNoteRaised(r))
  /\ UNCHANGED <<nickname, requests>>

\* remove_note up to its await.
remove_note(t) ==
  /\ inflight[t] = NoCall
  /\ Request(t, "remove_note", None)
  /\ UNCHANGED <<nickname, note, last>>

\* remove_note from the response on.
remove_note_resume(t, r) ==
  /\ inflight[t].op = "remove_note"
  /\ inflight' = [inflight EXCEPT ![t] = NoCall]
  /\ note' = IF r = Returned THEN None ELSE note
  /\ last' = Ended("remove_note", None, Some(r), r)
  /\ UNCHANGED <<nickname, requests>>

\* _alias if _alias != '' else None
Normalized(s) == IF s # EmptyStr THEN Some(s) ELSE None

\* _update_summary(data) with data = {'alias': alias, 'note': n}.
_update_summary(alias, n) ==
  /\ nickname' = Normalized(alias)
  /\ note' = Normalized(n)
  /\ last' = Ended("_update_summary", <<alias, n>>, None, Returned)
  /\ UNCHANGED <<inflight, requests>>

\* The alias / note values a summary payload may carry: an empty string, one
\* within the limits and one beyond them.
SummaryAliases == { EmptyStr, Str(MinNicknameLen), Str(MaxNicknameLen + 1) }
SummaryNotes == { EmptyStr, Str(MinNoteLen), Str(MaxNoteLen + 1) }

\* ------------------------------------------------------- FriendBase
Statuses == { "ACCEPTED", "PENDING" }
Directions == { "INBOUND", "OUTGOING" }

\* ISO-8601 strings as the service sends them, and one that does not parse.
IsoStrings == { "2019-12-31T23:59:59.000Z", "2020-06-15T12:30:00.000Z" }
MalformedIso == "not-a-timestamp"

\* client.from_iso: the datetime of an ISO string.
from_iso(s) ==
  CASE s = "2019-12-31T23:59:59.000Z" -> <<2019, 12, 31, 23, 59, 59>>
    [] s = "2020-06-15T12:30:00.000Z" -> <<2020, 6, 15, 12, 30, 0>>

\* from_iso raises ValueError on a string that is no timestamp.
Parses(s) == s \in IsoStrings

Datetimes == { from_iso(s) : s \in IsoStrings }

Opt(S) == {None} \cup { Some(v) : v \in S }

\* An update payload: a dict in which each key may be missing (None here).
Payloads ==
  [ status : Opt(Statuses),
    direction : Opt(Directions),
    created : Opt(IsoStrings \cup {MalformedIso}),
    favorite : Opt(BOOLEAN) ]

\* The payloads an object can be constructed from: _update must not raise.
CompletePayloads ==
  { p \in Payloads : /\ p.status # None
                     /\ p.direction # None
                     /\ p.created # None
                     /\ Parses(p.created[1]) }

Fields == [status |-> status, direction |-> direction,
           created_at |-> created_at, favorite |-> favorite]

\* FriendBase._update on the fields f: the three assignments in order, each
\* data[...] raising KeyError on a missing key. Gives the fields and the
\* outcome. (UserBase._update, called first, writes identity fields only.)
FriendBase_update(f, data) ==
  IF data.status = None
    THEN [fields |-> f, outcome |-> Raise("KeyError", "status")]
  ELSE LET f1 == [f EXCEPT !.status = data.status[1]] IN
  IF data.direction = None
    THEN [fields |-> f1, outcome |-> Raise("KeyError", "direction")]
  ELSE LET f2 == [f1 EXCEPT !.direction = data.direction[1]] IN
  IF data.created = None
    THEN [fields |-> f2, outcome |-> Raise("KeyError", "created")]
  ELSE IF ~Parses(data.created[1])
    THEN [fields |-> f2, outcome |-> Raise("ValueError", "from_iso")]
  ELSE [fields |-> [f2 EXCEPT !.created_at = from_iso(data.created[1])],
        outcome |-> Returned]

\* Mutation of Friend._update: a payload without 'favorite' keeps the stored
\* value (a merge).
Friend_update_merging(f, data) ==
  LET base == FriendBase_update(f, data) IN
  IF base.outcome # Returned
    THEN base
    ELSE [fields |-> [base.fields EXCEPT
                        !.favorite = IF data.favorite = None THEN f.favorite
                                                             ELSE data.favorite],
          outcome |-> Returned]

\* Friend._update: super()._update(data), then _favorite = data.get('favorite').
Friend_update(f, data) ==
  LET base == FriendBase_update(f, data) IN
  IF base.outcome # Returned
    THEN base
    ELSE [fields |-> [base.fields EXCEPT !.favorite = data.favorite],
          outcome |-> Returned]

\* The object after construction from a payload (the constructor runs _update).
Constructed(data) ==
  /\ status = data.status[1]
  /\ direction = data.direction[1]
  /\ created_at = from_iso(data.created[1])
  /\ favorite = data.favorite
  /\ upd = [data |-> data, before |-> None, outcome |-> Returned, seq |-> 0]

UpdateInit == \E data \in CompletePayloads : Constructed(data)

\* One constructed object, for the machines that never call _update.
AnyFriend ==
  Constructed([status |-> Some("ACCEPTED"), direction |-> Some("INBOUND"),
               created |-> Some("2019-12-31T23:59:59.000Z"), favorite |-> Some(FALSE)])

\* A later _update(data) on the object.
_update(data) ==
  LET r == Friend_update(Fields, data) IN
  /\ status' = r.fields.status
  /\ direction' = r.fields.direction
  /\ created_at' = r.fields.created_at
  /\ favorite' = r.fields.favorite
  /\ upd' = [data |-> data, before |-> Some(Fields), outcome |-> r.outcome,
             seq |-> 1 - upd.seq]

\* FriendBase.inbound
inbound == direction = "INBOUND"

\* Mutation of outgoing: the string compared with is misspelt.
outgoing_misspelt == direction = "OUTBOUND"

\* FriendBase.outgoing
outgoing == direction = "OUTGOING"

\* --------------------------------------------------------- presence
\* Account ids: this friend's and another friend's.
SelfId == "friend"
Ids == { SelfId, "other" }

Platforms == { "WIN", "PSN" }

\* A Presence, as far as friend.py reads it.
Presences ==
  [ available : BOOLEAN, platform : Platforms, party : [private : BOOLEAN] ]

PresenceInit ==
  /\ cache = [i \in Ids |-> None]
  /\ joining = [t \in Tasks |-> FALSE]
  /\ joins = 0
  /\ ret = [op |-> "none", response |-> None, outcome |-> Returned,
            value |-> None, seq |-> 0]

\* The record of an ended presence operation: what party.join() ended with
\* (None when it was not called), what the caller got, the value returned.
Gave(op, response, outcome, value) ==
  [op |-> op, response |-> response, outcome |-> outcome, value |-> value,
   seq |-> 1 - ret.seq]

\* The client stores the presence it received for an account.
PresenceReceived(i, pres) ==
  /\ cache' = [cache EXCEPT ![i] = Some(pres)]
  /\ UNCHANGED <<joining, joins, ret>>

\* The client drops the presence of an account.
PresenceDropped(i) ==
  /\ cache[i] # None
  /\ cache' = [cache EXCEPT ![i] = None]
  /\ UNCHANGED <<joining, joins, ret>>

\* client.get_presence(id)
get_presence(i) == cache[i]

\* Friend.last_presence
last_presence == get_presence(SelfId)

\* Mutation of is_online: any cached presence counts as online.
is_online_value_any_presence == get_presence(SelfId) # None

\* What is_online returns.
is_online_value ==
  LET pres == get_presence(SelfId) IN
  IF pres = None THEN FALSE ELSE pres[1].available

\* What platform returns: None without a presence.
platform_value ==
  LET pres == get_presence(SelfId) IN
  IF pres # None THEN Some(pres[1].platform) ELSE None

\* A call of is_online().
is_online ==
  /\ ret' = Gave("is_online", None, Returned, Some(is_online_value))
  /\ UNCHANGED <<cache, joining, joins>>

\* A read of platform.
platform ==
  /\ ret' = Gave("platform", None, Returned, platform_value)
  /\ UNCHANGED <<cache, joining, joins>>

\* What party.join() may end with: the new party, or an error.
JoinResponses == Responses

\* Mutation of join_party: the party's private flag is not checked.
join_party_no_private_check(t) ==
  /\ ~joining[t]
  /\ LET _pre == last_presence IN
     IF _pre = None
       THEN /\ ret' = Gave("join_party", None,
                        Raise("PartyError", "Could not join party. Reason: Party not found"),
                        None)
            /\ UNCHANGED <<cache, joining, joins>>
     ELSE /\ joins < MaxCalls
          /\ joins' = joins + 1
          /\ joining' = [joining EXCEPT ![t] = TRUE]
          /\ UNCHANGED <<cache, ret>>

\* join_party up to its await: the two checks, then party.join().
join_party(t) ==
  /\ ~joining[t]
  /\ LET _pre == last_presence IN
     IF _pre = None
       THEN /\ ret' = Gave("join_party", None,
                        Raise("PartyError", "Could not join party. Reason: Party not found"),
                        None)
            /\ UNCHANGED <<cache, joining, joins>>
     ELSE IF _pre[1].party.private
       THEN /\ ret' = Gave("join_party", None,
                        Raise("Forbidden", "Could not join party. Reason: Party is private"),
                        None)
            /\ UNCHANGED <<cache, joining, joins>>
     ELSE /\ joins < MaxCalls
          /\ joins' = joins + 1
          /\ joining' = [joining EXCEPT ![t] = TRUE]
          /\ UNCHANGED <<cache, ret>>

\* join_party from the end of party.join() on: its result or its error.
join_party_resume(t, r) ==
  /\ joining[t]
  /\ joining' = [joining EXCEPT ![t] = FALSE]
  /\ ret' = Gave("join_party", Some(r), r, IF r = Returned THEN Some("ClientParty") ELSE None)
  /\ UNCHANGED <<cache, joins>>

\* ------------------------------------------------------ last logout
\* A response entry: a non-empty list of records {'last_online': iso}.
Records == [ last_online : IsoStrings ]
Entries == UNION { [1..n -> Records] : n \in 1..MaxRecords }

\* presence_get_last_online(): a dict id -> entry; an id may be missing.
LastOnlineDicts == [ Ids -> Opt(Entries) ]

LogoutInit ==
  /\ last_logout = None
  /\ fetching = [t \in Tasks |-> FALSE]
  /\ fetches = 0
  /\ fetched = [response |-> None, outcome |-> Returned, value |-> None, seq |-> 0]

\* _update_last_logout(dt)
_update_last_logout(dt) ==
  /\ last_logout' = Some(dt)
  /\ UNCHANGED <<fetching, fetches, fetched>>

\* fetch_last_logout up to its await.
fetch_last_logout(t) ==
  /\ ~fetching[t]
  /\ fetches < MaxCalls
  /\ fetches' = fetches + 1
  /\ fetching' = [fetching EXCEPT ![t] = TRUE]
  /\ UNCHANGED <<last_logout, fetched>>

\* presences.get(self.id)
Entry(presences) == presences[SelfId]

\* Mutation of presence[0]: the last record is read, presence[-1].
LastRecordLastOnline(presence) == presence[Len(presence)].last_online

\* presence[0]['last_online']
FirstLastOnline(presence) == presence[1].last_online

\* fetch_last_logout from a response dict on.
fetch_last_logout_resume(t, presences) ==
  /\ fetching[t]
  /\ fetching' = [fetching EXCEPT ![t] = FALSE]
  /\ LET presence == Entry(presences) IN
     last_logout' = IF presence # None
                      THEN Some(from_iso(FirstLastOnline(presence[1])))
                      ELSE last_logout
  /\ fetched' = [response |-> Some(presences), outcome |-> Returned,
                 value |-> last_logout', seq |-> 1 - fetched.seq]
  /\ UNCHANGED fetches

\* fetch_last_logout when the request fails: the error propagates.
fetch_last_logout_failed(t, e) ==
  /\ fetching[t]
  /\ fetching' = [fetching EXCEPT ![t] = FALSE]
  /\ fetched' = [response |-> None, outcome |-> e, value |-> None,
                 seq |-> 1 - fetched.seq]
  /\ UNCHANGED <<last_logout, fetches>>

\* --------------------------------------------------- specifications
HistoryInit ==
  /\ ticket = [t \in Tasks |-> 0]
  /\ resolved = <<>>

Init ==
  /\ AnnotInit
  /\ HistoryInit
  /\ AnyFriend
  /\ PresenceInit
  /\ LogoutInit

\* The nickname and note operations of one Friend, from any number of tasks.
AnnotFrame == UNCHANGED <<history_vars, update_vars, presence_vars, logout_vars>>

AnnotNext ==
  \/ \E t \in Tasks, s \in NicknameInputs : set_nickname(t, s) /\ AnnotFrame
  \/ \E t \in Tasks, r \in Responses : set_nickname_resume(t, r) /\ AnnotFrame
  \/ \E t \in Tasks : remove_nickname(t) /\ AnnotFrame
  \/ \E t \in Tasks, r \in Responses : remove_nickname_resume(t, r) /\ AnnotFrame
  \/ \E t \in Tasks, s \in NoteInputs : set_note(t, s) /\ AnnotFrame
  \/ \E t \in Tasks, r \in Responses : set_note_resume(t, r) /\ AnnotFrame
  \/ \E t \in Tasks : remove_note(t) /\ AnnotFrame
  \/ \E t \in Tasks, r \in Responses : remove_note_resume(t, r) /\ AnnotFrame
  \/ \E a \in SummaryAliases, n \in SummaryNotes : _update_summary(a, n) /\ AnnotFrame

SpecAnnot == Init /\ [][AnnotNext]_vars

\* Concurrent set_nickname calls, with the order of requests and responses
\* kept as history: a request's ticket is its number in the order of issue.
RaceFrame == UNCHANGED <<update_vars, presence_vars, logout_vars>>

RaceCall(t, s) ==
  /\ set_nickname(t, s)
  /\ ticket' = IF inflight'[t] # NoCall THEN [ticket EXCEPT ![t] = requests'] ELSE ticket
  /\ UNCHANGED resolved

RaceResume(t, r) ==
  /\ set_nickname_resume(t, r)
  /\ resolved' = Append(resolved, [ticket |-> ticket[t], arg |-> inflight[t].arg, response |-> r])
  /\ ticket' = [ticket EXCEPT ![t] = 0]

RaceNext ==
  \/ \E t \in Tasks, s \in NicknameInputs : RaceCall(t, s) /\ RaceFrame
  \/ \E t \in Tasks, r \in Responses : RaceResume(t, r) /\ RaceFrame

SpecRace == Init /\ [][RaceNext]_vars

\* _update calls on a constructed object.
UpdateFrame == UNCHANGED <<annot_vars, history_vars, presence_vars, logout_vars>>

UpdateNext ==
  \E data \in Payloads : _update(data) /\ UpdateFrame

\* The object constructed from any complete payload.
InitAnyPayload ==
  /\ AnnotInit
  /\ HistoryInit
  /\ UpdateInit
  /\ PresenceInit
  /\ LogoutInit

SpecUpdate == InitAnyPayload /\ [][UpdateNext]_vars

\* The presence cache changing under the readers of one Friend.
PresenceFrame == UNCHANGED <<annot_vars, history_vars, update_vars, logout_vars>>

PresenceNext ==
  \/ \E i \in Ids, pres \in Presences : PresenceReceived(i, pres) /\ PresenceFrame
  \/ \E i \in Ids : PresenceDropped(i) /\ PresenceFrame
  \/ is_online /\ PresenceFrame
  \/ platform /\ PresenceFrame
  \/ \E t \in Tasks : join_party(t) /\ PresenceFrame
  \/ \E t \in Tasks, r \in JoinResponses : join_party_resume(t, r) /\ PresenceFrame

SpecPresence == Init /\ [][PresenceNext]_vars

\* fetch_last_logout from any number of tasks, and logout events.
LogoutFrame == UNCHANGED <<annot_vars, history_vars, update_vars, presence_vars>>

LogoutNext ==
  \/ \E dt \in Datetimes : _update_last_logout(dt) /\ LogoutFrame
  \/ \E t \in Tasks : fetch_last_logout(t) /\ LogoutFrame
  \/ \E t \in Tasks, d \in LastOnlineDicts : fetch_last_logout_resume(t, d) /\ LogoutFrame
  \/ \E t \in Tasks, e \in HTTPExceptions \cup OtherErrors : fetch_last_logout_failed(t, e) /\ LogoutFrame

SpecLogout == Init /\ [][LogoutNext]_vars

\* ----------------------------------------------------------- claims
CallOps == { "set_nickname", "remove_nickname", "set_note", "remove_note" }

\* A step in which an annotation operation ended.
AnnotEnds == last'.seq # last.seq

\* A step in which some task issued its request and now waits.
Issues == \E t \in Tasks : inflight[t] = NoCall /\ inflight'[t] # NoCall

\* A step in which some waiting task got its response.
Resumes == \E t \in Tasks : inflight[t] # NoCall /\ inflight'[t] = NoCall

\* C1: a call changes nothing up to its request; a call that ends with an
\* error (the length check, or any error of the request) leaves nickname and
\* note as they were; a call that ends normally leaves its own field equal to
\* the requested value (the string for set_*, None for remove_*) and the other
\* field as it was.
C1_AllOrNothing ==
  [][ /\ Issues => (nickname' = nickname /\ note' = note)
      /\ (AnnotEnds /\ last'.op \in CallOps) =>
           IF last'.outcome # Returned
             THEN nickname' = nickname /\ note' = note
           ELSE CASE last'.op = "set_nickname" ->
                       nickname' = last'.arg /\ last'.arg # None /\ note' = note
                  [] last'.op = "remove_nickname" ->
                       nickname' = None /\ note' = note
                  [] last'.op = "set_note" ->
                       note' = last'.arg /\ last'.arg # None /\ nickname' = nickname
                  [] last'.op = "remove_note" ->
                       note' = None /\ nickname' = nickname
    ]_vars

\* C1 witness: a set_nickname failed on its request while another nickname
\* was stored, and that one is still there.
C1_Witness ==
  /\ last.op = "set_nickname"
  /\ last.outcome.type = "HTTPException"
  /\ nickname # None
  /\ nickname # last.arg

\* len(nickname) in [3,16] and len(note) in [3,255], or None.
NicknameInBounds == nickname = None \/ (3 <= Len(nickname[1]) /\ Len(nickname[1]) <= 16)
NoteInBounds == note = None \/ (3 <= Len(note[1]) /\ Len(note[1]) <= 255)

\* C2 as stated: in every reachable state nickname is None or of length in
\* [3,16] and note is None or of length in [3,255].
C2_AlwaysInBounds == NicknameInBounds /\ NoteInBounds

\* A summary payload whose alias and note are empty or within the limits.
SummaryInBounds(data) ==
  /\ Len(data[1]) = 0 \/ (3 <= Len(data[1]) /\ Len(data[1]) <= 16)
  /\ Len(data[2]) = 0 \/ (3 <= Len(data[2]) /\ Len(data[2]) <= 255)

\* A step of _update_summary with a payload beyond the limits.
OutOfBoundsSummary ==
  AnnotEnds /\ last'.op = "_update_summary" /\ ~SummaryInBounds(last'.arg)

\* C2 amended: the bounds hold after construction, and every step keeps them
\* except an _update_summary whose payload carries an alias or note that is
\* neither empty nor within the limits; _update_summary checks no length.
C2_InBoundsUnlessSummary ==
  /\ C2_AlwaysInBounds
  /\ [][ (C2_AlwaysInBounds /\ ~OutOfBoundsSummary) => C2_AlwaysInBounds' ]_vars

\* C2 witness: both fields set at their upper limits.
C2_Witness ==
  /\ nickname = Some(Str(16))
  /\ note = Some(Str(255))

\* C3: set_nickname with a length outside [3,16] and set_note with a length
\* outside [3,255] end with ValueError without a request: the request count
\* is unchanged by the call, and no request is ever issued for such a value.
C3_RejectedBeforeRequest ==
  [][ /\ ( /\ AnnotEnds
           /\ \/ last'.op = "set_nickname" /\ ~(3 <= Len(last'.arg[1]) /\ Len(last'.arg[1]) <= 16)
              \/ last'.op = "set_note" /\ ~(3 <= Len(last'.arg[1]) /\ Len(last'.arg[1]) <= 255) )
         => /\ last'.outcome.type = "ValueError"
            /\ last'.response = None
            /\ requests' = requests
      /\ \A t \in Tasks :
           (inflight'[t] # inflight[t] /\ inflight'[t].op = "set_nickname")
             => (3 <= Len(inflight'[t].arg[1]) /\ Len(inflight'[t].arg[1]) <= 16)
      /\ \A t \in Tasks :
           (inflight'[t] # inflight[t] /\ inflight'[t].op = "set_note")
             => (3 <= Len(inflight'[t].arg[1]) /\ Len(inflight'[t].arg[1]) <= 255)
    ]_vars

\* C3 witness: set_nickname with two characters raised the length error with
\* no request made so far.
C3_Witness ==
  /\ last.op = "set_nickname"
  /\ Len(last.arg[1]) = 2
  /\ last.outcome = Raise("ValueError", "Invalid nickname length")
  /\ requests = 0

\* C5: whenever the set_nickname response that resolved last was a success,
\* nickname is the value of that call, whatever the order of issue.
C5_LastResolvedWins ==
  (Len(resolved) > 0 /\ resolved[Len(resolved)].response = Returned)
    => nickname = resolved[Len(resolved)].arg

\* C5 witness: two set_nickname calls with different values ran at once, the
\* one issued second resolved first, both succeeded, both have ended, and
\* nickname is the value of the one that resolved last.
C5_Witness ==
  /\ Len(resolved) = 2
  /\ resolved[1].ticket = 2 /\ resolved[1].response = Returned
  /\ resolved[2].ticket = 1 /\ resolved[2].response = Returned
  /\ resolved[1].arg # resolved[2].arg
  /\ \A t \in Tasks : inflight[t] = NoCall
  /\ nickname = resolved[2].arg

\* C6: when the request of set_nickname or set_note fails, the call ends with
\* ValueError exactly if the error is an HTTPException whose message code is
\* unsupported_media_type or validation_failed, and with the request's own
\* error otherwise; a call makes one request when it is issued and none when
\* it resumes.
C6_ErrorMapping ==
  [][ /\ ( /\ AnnotEnds
           /\ last'.op \in {"set_nickname", "set_note"}
           /\ last'.response # None
           /\ last'.response # Some(Returned) )
         => /\ last'.outcome.type = "ValueError"
                 <=> ( /\ last'.response[1].type = "HTTPException"
                       /\ last'.response[1].detail \in
                            { "errors.com.epicgames.common.unsupported_media_type",
                              "errors.com.epicgames.validation.validation_failed" } )
            /\ last'.outcome.type # "ValueError" => last'.outcome = last'.response[1]
      /\ Issues => requests' = requests + 1
      /\ Resumes => requests' = requests
    ]_vars

\* C6 witness: set_note got validation_failed and ended with ValueError after
\* the one request made.
C6_Witness ==
  /\ last.op = "set_note"
  /\ last.response = Some(Raise("HTTPException", "errors.com.epicgames.validation.validation_failed"))
  /\ last.outcome = Raise("ValueError", "Invalid note")
  /\ requests = 1

\* A step in which a presence operation ended.
PresenceEnds == ret'.seq # ret.seq

\* C7: join_party ends with PartyError when the cache holds no presence for
\* the friend's id and with Forbidden when the cached presence's party is
\* private, both without calling party.join(); party.join() is called, once,
\* only for a cached presence whose party is not private, and what it ends
\* with (the party or an error) is what join_party ends with.
C7_JoinParty ==
  [][ /\ (PresenceEnds /\ ret'.op = "join_party" /\ joining' = joining) =>
           /\ joins' = joins
           /\ ret'.response = None
           /\ \/ cache[SelfId] = None /\ ret'.outcome.type = "PartyError"
              \/ /\ cache[SelfId] # None
                 /\ cache[SelfId][1].party.private
                 /\ ret'.outcome.type = "Forbidden"
      /\ \A t \in Tasks : (~joining[t] /\ joining'[t]) =>
           /\ cache[SelfId] # None
           /\ ~cache[SelfId][1].party.private
           /\ joins' = joins + 1
      /\ \A t \in Tasks : (joining[t] /\ ~joining'[t]) =>
           /\ joins' = joins
           /\ ret'.op = "join_party"
           /\ ret'.response # None
           /\ ret'.outcome = ret'.response[1]
    ]_vars

\* C7 witness: join_party ended with Forbidden on a cached presence with a
\* private party, and party.join() was never called.
C7_Witness ==
  /\ ret.op = "join_party"
  /\ ret.outcome.type = "Forbidden"
  /\ cache[SelfId] # None
  /\ cache[SelfId][1].party.private
  /\ joins = 0

\* A step in which a fetch_last_logout ended.
FetchEnds == fetched'.seq # fetched.seq

C9_IsOnlineReadsCache ==
  [][ (PresenceEnds /\ ret'.op = "is_online") =>
        ret'.value = Some(IF cache[SelfId] = None THEN FALSE
                                                  ELSE cache[SelfId][1].available)
    ]_vars

\* C9 witness: after an earlier operation and a change of the cache (empty at
\* first), is_online returned True.
C9_Witness ==
  /\ ret.op = "is_online"
  /\ ret.seq = 0
  /\ ret.value = Some(TRUE)

\* C4 as stated: after a later _update whose payload has no 'favorite' key,
\* favorite is what it was before the call.
C4_FavoriteKept ==
  (upd.before # None /\ upd.data.favorite = None)
    => favorite = upd.before[1].favorite

\* C4 amended: a later _update that returns has set status, direction and
\* created_at from the payload and favorite to the payload's 'favorite', None
\* when the key is missing; one that raises (a missing status, direction or
\* created key, or a created that does not parse) leaves favorite as it was.
C4_FieldsReplaced ==
  upd.before # None =>
    IF upd.outcome = Returned
      THEN /\ Some(status) = upd.data.status
           /\ Some(direction) = upd.data.direction
           /\ upd.data.created # None
           /\ created_at = from_iso(upd.data.created[1])
           /\ favorite = upd.data.favorite
      ELSE /\ \/ upd.data.status = None
              \/ upd.data.direction = None
              \/ upd.data.created = None
              \/ upd.data.created = Some(MalformedIso)
           /\ favorite = upd.before[1].favorite

\* C4 witness: a later _update without 'favorite' returned on an object whose
\* favorite was True, and favorite is None.
C4_Witness ==
  /\ upd.before # None
  /\ upd.outcome = Returned
  /\ upd.data.favorite = None
  /\ upd.before[1].favorite = Some(TRUE)
  /\ favorite = None

\* C10: with direction INBOUND or OUTGOING, exactly one of inbound and
\* outgoing is true.
C10_ExactlyOneDirection ==
  direction \in {"INBOUND", "OUTGOING"} =>
    /\ ~(inbound /\ outgoing)
    /\ inbound \/ outgoing

\* C10 witness: after a later _update to OUTGOING, outgoing is true and
\* inbound is false.
C10_Witness ==
  /\ upd.before # None
  /\ upd.before[1].direction = "INBOUND"
  /\ direction = "OUTGOING"
  /\ outgoing
  /\ ~inbound

====
